---- MODULE Spec2Model ----
(***************************************************************************)
(* Model of script.js: the page's init flow (fetchData, calculateElo,      *)
(* displayEloTable, displayBattleList, displayBattleDetails) and the Elo   *)
(* computation itself, step by step.                                       *)
(*                                                                         *)
(* Arithmetic.  Ratings are JavaScript numbers in the source.  Here they   *)
(* are integers (whole rating points) and a score or an expected score is  *)
(* an integer count of 1/ELO_K_FACTOR units (One is the score 1, Half the  *)
(* score 0.5), so that K * (score - expected) is again a whole number of   *)
(* rating points.  The logistic curve 1 / (1 + 10^(d/400)) is tabulated,   *)
(* rounded to the nearest unit, separately for every rating gap d.         *)
(*                                                                         *)
(* A battle's timestamp_start is modelled by the time value that           *)
(* new Date(timestamp_start) yields for a valid date, an integer.          *)
(* Participant names are strings that are no array indices, so the         *)
(* properties of eloScores enumerate in insertion order.  The page's       *)
(* elements are taken to exist.                                            *)
(***************************************************************************)
EXTENDS Integers, Sequences, FiniteSets, TLC

ELO_K_FACTOR == 32

ELO_DEFAULT_RATING == 1500

\* Bounds of the model.
MaxBattles == 2

MaxTime == 3

MaxCalls == 2

Names == {"X", "Y"}

\* The template literal `${name}_wins`.
Wins(name) == name \o "_wins"

\* "tie" stands for every outcome value that is no `${name}_wins` string.
Outcomes == {Wins(n) : n \in Names} \cup {"tie"}

Battle ==
    [battle_id : 1..MaxBattles, model_A : Names, model_B : Names,
     timestamp_start : 1..MaxTime, battle_outcome : Outcomes]

\* The parsed data.json: an array of battles, battle_id unique within it.
Documents ==
    UNION {{d \in [1..n -> Battle] : \A k \in 1..n : d[k].battle_id = k} :
           n \in 0..MaxBattles}

Range(s) == {s[k] : k \in DOMAIN s}

(***************************************************************************)
(* Array.prototype.sort: a stable sort by a comparator; cmp[j][k] is the    *)
(* comparator's result for the elements at positions j and k.  The element *)
(* at position k comes after every element that compares less and after    *)
(* the earlier elements that compare equal.                                *)
(***************************************************************************)
StableSort(s, cmp) ==
    LET n == Len(s)
        Rank(k) == Cardinality({j \in 1..n :
                       \/ cmp[j][k] < 0
                       \/ cmp[j][k] = 0 /\ j < k}) + 1
    IN  [r \in 1..n |-> s[CHOOSE k \in 1..n : Rank(k) = r]]

\* (a, b) => new Date(a.timestamp_start) - new Date(b.timestamp_start)
ChronoCmp(a, b) == a.timestamp_start - b.timestamp_start

\* (a, b) => new Date(b.timestamp_start) - new Date(a.timestamp_start)
LatestFirstCmp(a, b) == b.timestamp_start - a.timestamp_start

\* ([, a], [, b]) => b.rating - a.rating
RatingDescCmp(a, b) == b.rating - a.rating

(***************************************************************************)
(* eloScores: a JavaScript object, modelled as the sequence of its entries *)
(* in property (insertion) order.                                          *)
(***************************************************************************)
NewEntry(name) ==
    [name |-> name, rating |-> ELO_DEFAULT_RATING, battlesPlayed |-> 0]

Has(es, name) == \E k \in DOMAIN es : es[k].name = name

Get(es, name) == es[CHOOSE k \in DOMAIN es : es[k].name = name]

\* eloScores[name] = entry
Put(es, name, entry) ==
    IF Has(es, name)
    THEN [k \in DOMAIN es |-> IF es[k].name = name THEN entry ELSE es[k]]
    ELSE Append(es, entry)

\* modelNames: a Set, in insertion order.
SetAdd(s, x) == IF x \in Range(s) THEN s ELSE Append(s, x)

RECURSIVE CollectNamesFrom(_, _)
CollectNamesFrom(bs, acc) ==
    IF bs = <<>> THEN acc
    ELSE CollectNamesFrom(Tail(bs),
             SetAdd(SetAdd(acc, Head(bs).model_A), Head(bs).model_B))

CollectOnlyA(bs) ==
    CollectNamesFrom([k \in DOMAIN bs |->
        [bs[k] EXCEPT !.model_B = bs[k].model_A]], <<>>)

CollectNames(bs) == CollectNamesFrom(bs, <<>>)

InitScores(names) == [k \in DOMAIN names |-> NewEntry(names[k])]

Unsorted(bs) == bs

SortChronological(bs) ==
    StableSort(bs, [j \in DOMAIN bs |->
                       [k \in DOMAIN bs |-> ChronoCmp(bs[j], bs[k])]])

(***************************************************************************)
(* Scores and expected scores, in units of 1/ELO_K_FACTOR.                 *)
(***************************************************************************)
One == ELO_K_FACTOR

Half == ELO_K_FACTOR \div 2

\* The rating gaps at which One / (1 + 10^(d/400)), rounded to the nearest
\* unit, drops by one unit.
LogisticSteps ==
    <<-719, -523, -428, -364, -314, -273, -237, -205, -176, -149, -124,
      -100, -77, -54, -32, -10, 11, 33, 55, 78, 101, 125, 150, 177, 206,
      238, 274, 315, 365, 429, 524, 720>>

\* 1 / (1 + Math.pow(10, d / 400))
Logistic(d) ==
    One - Cardinality({k \in DOMAIN LogisticSteps : LogisticSteps[k] <= d})

(***************************************************************************)
(* One iteration of the update loop of calculateElo.                       *)
(***************************************************************************)
ScoresNoDefault(outcome, modelA, modelB) ==
    IF outcome = Wins(modelA) THEN <<One, 0>>
    ELSE IF outcome = Wins(modelB) THEN <<0, One>>
    ELSE <<0, 0>>

\* <<scoreA, scoreB>>
ScoresFor(outcome, modelA, modelB) ==
    IF outcome = Wins(modelA) THEN <<One, 0>>
    ELSE IF outcome = Wins(modelB) THEN <<0, One>>
    ELSE <<Half, Half>>

\* if (!eloScores[name]) eloScores[name] = { rating: default, battlesPlayed: 0 }
Ensure(es, name) == IF Has(es, name) THEN es ELSE Put(es, name, NewEntry(name))

\* eloScores[name].rating += ELO_K_FACTOR * (score - expected)
AddRating(es, name, score, expected) ==
    Put(es, name, [Get(es, name) EXCEPT
        !.rating = @ + (ELO_K_FACTOR * (score - expected)) \div One])

\* eloScores[name].battlesPlayed++
IncPlayed(es, name) ==
    Put(es, name, [Get(es, name) EXCEPT !.battlesPlayed = @ + 1])

\* The constants of one iteration.
Locals(es, battle) ==
    LET modelA == battle.model_A
        modelB == battle.model_B
        es2 == Ensure(Ensure(es, modelA), modelB)
        ratingA == Get(es2, modelA).rating
        ratingB == Get(es2, modelB).rating
        scores == ScoresFor(battle.battle_outcome, modelA, modelB)
    IN  [modelA |-> modelA, modelB |-> modelB,
         ratingA |-> ratingA, ratingB |-> ratingB,
         expectedA |-> Logistic(ratingB - ratingA),
         expectedB |-> Logistic(ratingA - ratingB),
         scoreA |-> scores[1], scoreB |-> scores[2]]

ApplySequential(es, battle) ==
    LET l == Locals(es, battle)
        es2 == Ensure(Ensure(es, l.modelA), l.modelB)
        es3 == AddRating(es2, l.modelA, l.scoreA, l.expectedA)
        es4 == AddRating(es3, l.modelB, l.scoreB,
                   Logistic(Get(es3, l.modelA).rating - Get(es3, l.modelB).rating))
    IN  IncPlayed(IncPlayed(es4, l.modelA), l.modelB)

ApplySameExpected(es, battle) ==
    LET l == Locals(es, battle)
        es2 == Ensure(Ensure(es, l.modelA), l.modelB)
        es3 == AddRating(es2, l.modelA, l.scoreA, l.expectedA)
        es4 == AddRating(es3, l.modelB, l.scoreB, l.expectedA)
    IN  IncPlayed(IncPlayed(es4, l.modelA), l.modelB)

ApplyCountOnePerName(es, battle) ==
    LET l == Locals(es, battle)
        es2 == Ensure(Ensure(es, l.modelA), l.modelB)
        es3 == AddRating(es2, l.modelA, l.scoreA, l.expectedA)
        es4 == AddRating(es3, l.modelB, l.scoreB, l.expectedB)
    IN  IF l.modelA = l.modelB THEN IncPlayed(es4, l.modelA)
        ELSE IncPlayed(IncPlayed(es4, l.modelA), l.modelB)

ApplyBattle(es, battle) ==
    LET l == Locals(es, battle)
        es2 == Ensure(Ensure(es, l.modelA), l.modelB)
        es3 == AddRating(es2, l.modelA, l.scoreA, l.expectedA)
        es4 == AddRating(es3, l.modelB, l.scoreB, l.expectedB)
    IN  IncPlayed(IncPlayed(es4, l.modelA), l.modelB)

NoLocals ==
    [modelA |-> "", modelB |-> "", ratingA |-> 0, ratingB |-> 0,
     expectedA |-> 0, expectedB |-> 0, scoreA |-> 0, scoreB |-> 0]

(***************************************************************************)
(* Rendering.                                                              *)
(***************************************************************************)
\* displayEloTable: the rows of the table body.
RenderTable(es) ==
    LET sortedModels ==
            StableSort(es, [j \in DOMAIN es |->
                               [k \in DOMAIN es |-> RatingDescCmp(es[j], es[k])]])
    IN  [rows |-> [k \in DOMAIN sortedModels |->
                      [rank |-> k, name |-> sortedModels[k].name,
                       rating |-> sortedModels[k].rating,
                       battlesPlayed |-> sortedModels[k].battlesPlayed]],
         placeholder |-> Len(sortedModels) = 0]

TimelineOrder(bs) ==
    StableSort(bs, [j \in DOMAIN bs |->
                       [k \in DOMAIN bs |-> LatestFirstCmp(bs[j], bs[k])]])

\* displayBattleList: the items of the list, each with its click listener.
RenderList(bs) ==
    LET sortedBattles == TimelineOrder(bs)
    IN  [items |-> [k \in DOMAIN sortedBattles |->
                       [battle_id |-> sortedBattles[k].battle_id,
                        model_A |-> sortedBattles[k].model_A,
                        model_B |-> sortedBattles[k].model_B,
                        battle_outcome |-> sortedBattles[k].battle_outcome]],
         placeholder |-> Len(sortedBattles) = 0]

\* The states of battleDetailsContentDiv.innerHTML.
Pane(kind, id) == [kind |-> kind, battle_id |-> id]

\* displayBattleDetails: battles.find(b => b.battle_id === battleId)
RenderDetails(battleId, bs) ==
    IF \E k \in DOMAIN bs : bs[k].battle_id = battleId
    THEN Pane("battle", battleId)
    ELSE Pane("notfound", 0)

(***************************************************************************)
(* State.                                                                  *)
(***************************************************************************)
VARIABLES
    pc,          \* position in init / calculateElo
    fetched,     \* how fetchData ended
    battles,     \* the array init holds: calculateElo's argument, the list's
                 \* argument and the array the click listeners search
    passed,      \* the array's contents when calculateElo was called
    eloScores,   \* calculateElo's table (its return value once returned)
    i,           \* index of the update loop
    loc,         \* the constants of the last iteration
    reinit,      \* some iteration took a defensive re-initialisation
    processed,   \* battle_ids in the order the loop updated them
    calls,       \* calls of calculateElo so far
    previous,    \* the return value of the previous call
    eloTable, battleList, details    \* the page

vars == <<pc, fetched, battles, passed, eloScores, i, loc, reinit, processed,
          calls, previous, eloTable, battleList, details>>

page == <<eloTable, battleList, details>>

Init ==
    /\ pc = "fetch"
    /\ fetched = "pending"
    /\ battles = <<>>
    /\ passed = <<>>
    /\ eloScores = <<>>
    /\ i = 1
    /\ loc = NoLocals
    /\ reinit = FALSE
    /\ processed = <<>>
    /\ calls = 0
    /\ previous = <<>>
    /\ eloTable = [rows |-> <<>>, placeholder |-> FALSE]
    /\ battleList = [items |-> <<>>, placeholder |-> FALSE]
    /\ details = Pane("initial", 0)

(***************************************************************************)
(* fetchData                                                               *)
(***************************************************************************)
FetchOk ==
    /\ pc = "fetch"
    /\ \E d \in Documents : battles' = d
    /\ fetched' = "ok"
    /\ pc' = "fetched"
    /\ UNCHANGED <<passed, eloScores, i, loc, reinit, processed, calls,
                   previous, page>>

FetchNotFound ==
    /\ pc = "fetch"
    /\ battles' = <<>>
    /\ fetched' = "404"
    /\ pc' = "fetched"
    /\ UNCHANGED <<passed, eloScores, i, loc, reinit, processed, calls,
                   previous, page>>

\* fetch rejects, the status is neither OK nor 404, or response.json() rejects.
FetchFailed ==
    /\ pc = "fetch"
    /\ \E kind \in {"network", "http", "parse"} : fetched' = kind
    /\ details' = Pane("error", 0)
    /\ battles' = <<>>
    /\ pc' = "fetched"
    /\ UNCHANGED <<passed, eloScores, i, loc, reinit, processed, calls,
                   previous, eloTable, battleList>>

(***************************************************************************)
(* calculateElo                                                            *)
(***************************************************************************)
Enter ==
    /\ passed' = battles
    /\ eloScores' = <<>>
    /\ i' = 1
    /\ loc' = NoLocals
    /\ reinit' = FALSE
    /\ processed' = <<>>
    /\ calls' = calls + 1
    /\ pc' = "collect"

CalcCollect ==
    /\ pc = "collect"
    /\ eloScores' = InitScores(CollectNames(battles))
    /\ pc' = "sort"
    /\ UNCHANGED <<fetched, battles, passed, i, loc, reinit, processed, calls,
                   previous, page>>

CalcSort ==
    /\ pc = "sort"
    /\ battles' = SortChronological(battles)
    /\ i' = 1
    /\ pc' = "loop"
    /\ UNCHANGED <<fetched, passed, eloScores, loc, reinit, processed, calls,
                   previous, page>>

CalcBattle ==
    /\ pc = "loop"
    /\ i <= Len(battles)
    /\ LET battle == battles[i]
       IN  /\ reinit' = (\/ reinit
                         \/ ~Has(eloScores, battle.model_A)
                         \/ ~Has(eloScores, battle.model_B))
           /\ loc' = Locals(eloScores, battle)
           /\ eloScores' = ApplyBattle(eloScores, battle)
           /\ processed' = Append(processed, battle.battle_id)
    /\ i' = i + 1
    /\ UNCHANGED <<pc, fetched, battles, passed, calls, previous, page>>

CalcReturn ==
    /\ pc = "loop"
    /\ i > Len(battles)
    /\ pc' = "returned"
    /\ UNCHANGED <<fetched, battles, passed, eloScores, i, loc, reinit,
                   processed, calls, previous, page>>

(***************************************************************************)
(* init, after fetchData resolved                                          *)
(***************************************************************************)
InitCompute ==
    /\ pc = "fetched"
    /\ Len(battles) > 0
    /\ Enter
    /\ UNCHANGED <<fetched, battles, previous, page>>

InitEmpty ==
    /\ pc = "fetched"
    /\ ~(Len(battles) > 0)
    /\ eloTable' = RenderTable(<<>>)
    /\ battleList' = RenderList(<<>>)
    /\ details' = Pane("nodata", 0)
    /\ pc' = "done"
    /\ UNCHANGED <<fetched, battles, passed, eloScores, i, loc, reinit,
                   processed, calls, previous>>

DisplayEloTable ==
    /\ pc = "returned"
    /\ eloTable' = RenderTable(eloScores)
    /\ pc' = "table"
    /\ UNCHANGED <<fetched, battles, passed, eloScores, i, loc, reinit,
                   processed, calls, previous, battleList, details>>

DisplayBattleList ==
    /\ pc = "table"
    /\ battleList' = RenderList(battles)
    /\ pc' = "done"
    /\ UNCHANGED <<fetched, battles, passed, eloScores, i, loc, reinit,
                   processed, calls, previous, eloTable, details>>

\* A click on a list item: displayBattleDetails(battle.battle_id, allBattlesData)
DisplayBattleDetails ==
    /\ pc = "done"
    /\ \E k \in DOMAIN battleList.items :
           details' = RenderDetails(battleList.items[k].battle_id, battles)
    /\ UNCHANGED <<pc, fetched, battles, passed, eloScores, i, loc, reinit,
                   processed, calls, previous, eloTable, battleList>>

Next ==
    \/ FetchOk
    \/ FetchNotFound
    \/ FetchFailed
    \/ InitCompute
    \/ InitEmpty
    \/ CalcCollect
    \/ CalcSort
    \/ CalcBattle
    \/ CalcReturn
    \/ DisplayEloTable
    \/ DisplayBattleList
    \/ DisplayBattleDetails

Spec == Init /\ [][Next]_vars

(***************************************************************************)
(* calculateElo called on a battle collection, then called again on the    *)
(* same collection.                                                        *)
(***************************************************************************)
InitElo ==
    /\ pc = "collect"
    /\ fetched = "ok"
    /\ battles \in Documents
    /\ passed = battles
    /\ eloScores = <<>>
    /\ i = 1
    /\ loc = NoLocals
    /\ reinit = FALSE
    /\ processed = <<>>
    /\ calls = 1
    /\ previous = <<>>
    /\ eloTable = [rows |-> <<>>, placeholder |-> FALSE]
    /\ battleList = [items |-> <<>>, placeholder |-> FALSE]
    /\ details = Pane("initial", 0)

CallAgain ==
    /\ pc = "returned"
    /\ calls < MaxCalls
    /\ previous' = eloScores
    /\ Enter
    /\ UNCHANGED <<fetched, battles, page>>

NextElo ==
    \/ CalcCollect
    \/ CalcSort
    \/ CalcBattle
    \/ CalcReturn
    \/ CallAgain

SpecElo == InitElo /\ [][NextElo]_vars

(***************************************************************************)
(* Vocabulary of the properties.                                           *)
(***************************************************************************)
RatingOf(es, name) == Get(es, name).rating

PlayedOf(es, name) == Get(es, name).battlesPlayed

EntryNames(es) == {es[k].name : k \in DOMAIN es}

EntriesOf(es, name) == {k \in DOMAIN es : es[k].name = name}

\* The mapping without its enumeration order.
AsMap(es) ==
    [n \in EntryNames(es) |-> <<RatingOf(es, n), PlayedOf(es, n)>>]

RECURSIVE SumSeq(_)
SumSeq(s) == IF s = <<>> THEN 0 ELSE Head(s) + SumSeq(Tail(s))

SumRatings(es) == SumSeq([k \in DOMAIN es |-> es[k].rating])

SumPlayed(es) == SumSeq([k \in DOMAIN es |-> es[k].battlesPlayed])

\* K * (score - expected), in rating points.
Gain(score, expected) == (ELO_K_FACTOR * (score - expected)) \div One

BattleOf(bs, id) == bs[CHOOSE k \in DOMAIN bs : bs[k].battle_id = id]

PositionOf(bs, id) == CHOOSE k \in DOMAIN bs : bs[k].battle_id = id

DistinctTimes(bs) ==
    \A j, k \in DOMAIN bs :
        j # k => bs[j].timestamp_start # bs[k].timestamp_start

\* The updates applied one by one in timestamp order to a SET of battles
\* with pairwise distinct timestamps, starting from an empty table.
RECURSIVE InTimeOrder(_, _)
InTimeOrder(S, es) ==
    IF S = {} THEN es
    ELSE LET b == CHOOSE x \in S :
                      \A y \in S : x.timestamp_start <= y.timestamp_start
         IN  InTimeOrder(S \ {b}, ApplyBattle(es, b))

Anonymous(bs) == {[bs[k] EXCEPT !.battle_id = 0] : k \in DOMAIN bs}

InCall == pc \in {"sort", "loop", "returned", "table", "done"} /\ calls > 0

Returned == pc \in {"returned", "table", "done"} /\ calls > 0

\* This step is one iteration of the update loop, on battles[i].
BattleStep == pc = "loop" /\ i' = i + 1

FetchFailure == fetched \in {"network", "http", "parse"}

(***************************************************************************)
(* C1: calculateElo leaves the caller's collection as it was: after the    *)
(* call the array holds the same battles in the same order as before.      *)
(***************************************************************************)
C1_InputUnchanged == Returned => battles = passed

(***************************************************************************)
(* C2: the updates are applied in ascending timestamp order, equal         *)
(* timestamps in their input order, every battle once; and when the        *)
(* timestamps are pairwise distinct the returned ratings and games played  *)
(* are those of applying the updates one by one in timestamp order, a      *)
(* function of the set of battles alone, so the same for every             *)
(* permutation of the input array.                                         *)
(***************************************************************************)
C2_ChronologicalOrder ==
    pc = "returned" =>
        /\ Len(processed) = Len(passed)
        /\ {processed[k] : k \in DOMAIN processed}
               = {passed[k].battle_id : k \in DOMAIN passed}
        /\ \A a, b \in DOMAIN processed :
               a < b =>
                   LET x == BattleOf(passed, processed[a])
                       y == BattleOf(passed, processed[b])
                   IN  /\ x.timestamp_start <= y.timestamp_start
                       /\ x.timestamp_start = y.timestamp_start =>
                              PositionOf(passed, processed[a])
                                  < PositionOf(passed, processed[b])
        /\ DistinctTimes(passed) =>
               AsMap(eloScores) = AsMap(InTimeOrder(Anonymous(passed), <<>>))

C2_Witness ==
    /\ pc = "returned"
    /\ calls = 1
    /\ processed = <<2, 1>>
    /\ DistinctTimes(passed)
    /\ \E n \in EntryNames(eloScores) :
           RatingOf(eloScores, n) # ELO_DEFAULT_RATING

(***************************************************************************)
(* C3 as stated: in every battle the entry of slot A ends at               *)
(* rA + K * (scoreA - expected(rA, rB)) and the entry of slot B at         *)
(* rB + K * (scoreB - expected(rB, rA)), rA and rB being the ratings       *)
(* before the battle.                                                      *)
(***************************************************************************)
C3_Original ==
    [][BattleStep =>
        LET b == battles[i]
            rA == RatingOf(eloScores, b.model_A)
            rB == RatingOf(eloScores, b.model_B)
        IN  /\ RatingOf(eloScores', b.model_A)
                   = rA + Gain(loc'.scoreA, Logistic(rB - rA))
            /\ RatingOf(eloScores', b.model_B)
                   = rB + Gain(loc'.scoreB, Logistic(rA - rB))]_vars

(***************************************************************************)
(* C3 as amended: both increments are computed from the ratings held       *)
(* before the battle.  In a battle between two different participants A    *)
(* ends at rA + K * (scoreA - expected(rA, rB)) and B at                   *)
(* rB + K * (scoreB - expected(rB, rA)); when both slots name the same     *)
(* participant its one entry receives both increments.  A battle between   *)
(* two different participants at 1500 won by the first ends at 1516 and    *)
(* 1484, and a first battle leaves both with one game played.              *)
(***************************************************************************)
C3_SimultaneousUpdate ==
    [][BattleStep =>
        LET b == battles[i]
            A == b.model_A
            B == b.model_B
            rA == RatingOf(eloScores, A)
            rB == RatingOf(eloScores, B)
            gainA == Gain(loc'.scoreA, Logistic(rB - rA))
            gainB == Gain(loc'.scoreB, Logistic(rA - rB))
        IN  /\ A # B => /\ RatingOf(eloScores', A) = rA + gainA
                        /\ RatingOf(eloScores', B) = rB + gainB
            /\ A = B => RatingOf(eloScores', A) = rA + gainA + gainB
            /\ (A # B /\ rA = 1500 /\ rB = 1500
                    /\ b.battle_outcome = Wins(A)) =>
                   /\ RatingOf(eloScores', A) = 1516
                   /\ RatingOf(eloScores', B) = 1484
            /\ (A # B /\ i = 1) =>
                   /\ PlayedOf(eloScores', A) = 1
                   /\ PlayedOf(eloScores', B) = 1]_vars

C3_Witness ==
    /\ pc = "loop"
    /\ i = 3
    /\ loc.modelA # loc.modelB
    /\ loc.ratingA = 1516
    /\ loc.ratingB = 1484
    /\ loc.scoreB = One
    /\ RatingOf(eloScores, loc.modelA) = 1516 + Gain(0, Logistic(1484 - 1516))
    /\ RatingOf(eloScores, loc.modelB) = 1484 + Gain(One, Logistic(1516 - 1484))

(***************************************************************************)
(* C4: the games played of the returned mapping add up to twice the        *)
(* number of battles of the collection, and every battle was processed     *)
(* exactly once.                                                           *)
(***************************************************************************)
C4_GamesPlayedSum ==
    pc = "returned" =>
        /\ SumPlayed(eloScores) = 2 * Len(passed)
        /\ Len(processed) = Len(passed)
        /\ \A a, b \in DOMAIN processed : a # b => processed[a] # processed[b]

C4_Witness ==
    /\ pc = "returned"
    /\ Len(passed) >= 2
    /\ \E k \in DOMAIN passed : passed[k].model_A = passed[k].model_B
    /\ \E n \in EntryNames(eloScores) : PlayedOf(eloScores, n) >= 3

(***************************************************************************)
(* C5: a second call of calculateElo on the same collection returns the    *)
(* same output as the first: the same participants in the same             *)
(* enumeration order with the same rating and games played, hence the      *)
(* same ranked table.                                                      *)
(***************************************************************************)
C5_Deterministic ==
    (pc = "returned" /\ calls >= 2) =>
        /\ eloScores = previous
        /\ RenderTable(eloScores) = RenderTable(previous)

(***************************************************************************)
(* C6 as stated: an outcome that is the A-wins tag scores (1, 0), one      *)
(* that is the B-wins tag scores (0, 1), any other value scores            *)
(* (0.5, 0.5); in each case both ratings are updated with these scores     *)
(* and both games-played counters are incremented.                         *)
(***************************************************************************)
C6_Original ==
    [][BattleStep =>
        LET b == battles[i]
            A == b.model_A
            B == b.model_B
        IN  /\ b.battle_outcome = Wins(A) =>
                   loc'.scoreA = One /\ loc'.scoreB = 0
            /\ b.battle_outcome = Wins(B) =>
                   loc'.scoreA = 0 /\ loc'.scoreB = One
            /\ b.battle_outcome \notin {Wins(A), Wins(B)} =>
                   loc'.scoreA = Half /\ loc'.scoreB = Half
            /\ SumPlayed(eloScores') = SumPlayed(eloScores) + 2]_vars

(***************************************************************************)
(* C6 as amended: an outcome that is the A-wins tag scores (1, 0); one     *)
(* that is the B-wins tag and not the A-wins tag scores (0, 1); any other  *)
(* value scores (0.5, 0.5) and is no error.  In each case the ratings      *)
(* move by K * (score - expected) for these scores and both games-played   *)
(* counters are incremented.                                               *)
(***************************************************************************)
C6_OutcomeScores ==
    [][BattleStep =>
        LET b == battles[i]
            A == b.model_A
            B == b.model_B
            rA == RatingOf(eloScores, A)
            rB == RatingOf(eloScores, B)
            sA == IF b.battle_outcome = Wins(A) THEN One
                  ELSE IF b.battle_outcome = Wins(B) THEN 0 ELSE Half
            sB == One - sA
        IN  /\ loc'.scoreA = sA
            /\ loc'.scoreB = sB
            /\ A # B => /\ RatingOf(eloScores', A)
                              = rA + Gain(sA, Logistic(rB - rA))
                        /\ RatingOf(eloScores', B)
                              = rB + Gain(sB, Logistic(rA - rB))
                        /\ PlayedOf(eloScores', A) = PlayedOf(eloScores, A) + 1
                        /\ PlayedOf(eloScores', B) = PlayedOf(eloScores, B) + 1
            /\ A = B => PlayedOf(eloScores', A) = PlayedOf(eloScores, A) + 2
            /\ pc' = "loop"]_vars

C6_Witness ==
    /\ pc = "loop"
    /\ i > 1
    /\ LET b == battles[i - 1]
       IN  /\ b.model_A # b.model_B
           /\ b.battle_outcome \notin {Wins(b.model_A), Wins(b.model_B)}
           /\ loc.ratingA # loc.ratingB
           /\ loc.scoreA = Half
           /\ loc.scoreB = Half
           /\ RatingOf(eloScores, b.model_A) # loc.ratingA

(***************************************************************************)
(* C7: from the first update on, every name of every battle of the         *)
(* collection has exactly one entry in the table; the entries were         *)
(* created with the default rating and no games played before the first    *)
(* update; the defensive re-initialisation of the loop is never taken;     *)
(* and within a call no entry is removed or reset.                         *)
(***************************************************************************)
C7_PreInitialised ==
    /\ [](InCall =>
            /\ \A k \in DOMAIN battles :
                   /\ Cardinality(EntriesOf(eloScores, battles[k].model_A)) = 1
                   /\ Cardinality(EntriesOf(eloScores, battles[k].model_B)) = 1
            /\ ~reinit
            /\ (pc = "sort" \/ (pc = "loop" /\ i = 1)) =>
                   \A k \in DOMAIN eloScores : eloScores[k] = NewEntry(eloScores[k].name))
    /\ [][(InCall /\ calls' = calls) =>
            \A n \in EntryNames(eloScores) :
                /\ n \in EntryNames(eloScores')
                /\ PlayedOf(eloScores', n) >= PlayedOf(eloScores, n)]_vars

C7_Witness ==
    /\ pc = "loop"
    /\ i > 1
    /\ ~reinit
    /\ Len(eloScores) = 2
    /\ battles[i - 1].model_A # battles[i - 1].model_B
    /\ \A k \in DOMAIN battles : battles[k].model_B = battles[1].model_B
    /\ \A k \in DOMAIN battles : battles[k].model_A = battles[1].model_A

(***************************************************************************)
(* C8: displayBattleList leaves the array it is given in the order it had, *)
(* the array searched for the details holds the same battles, and neither  *)
(* the rating computation nor the timeline view re-orders the common       *)
(* array: once loaded, the array never changes.                            *)
(***************************************************************************)
C8_NoSharedReorder == [][pc # "fetch" => battles' = battles]_vars

(***************************************************************************)
(* C9: when loading fails the core gets an empty collection, the table and *)
(* the list show their empty state, and after a transport or parse failure *)
(* the loader's error message is what the details pane shows once init has *)
(* finished.                                                               *)
(***************************************************************************)
C9_ErrorMessageKept ==
    (pc = "done" /\ fetched # "ok") =>
        /\ battles = <<>>
        /\ eloTable.placeholder
        /\ battleList.placeholder
        /\ FetchFailure => details = Pane("error", 0)

(***************************************************************************)
(* C10: after each battle the ratings of the table still add up to the     *)
(* default rating times the number of participants, and the rating change  *)
(* of one side of the last battle is the negative of the other side's.     *)
(***************************************************************************)
C10_ZeroSum ==
    (pc \in {"loop", "returned"}) =>
        /\ SumRatings(eloScores) = ELO_DEFAULT_RATING * Len(eloScores)
        /\ Gain(loc.scoreA, loc.expectedA) = -Gain(loc.scoreB, loc.expectedB)
        /\ (i > 1 /\ loc.modelA # loc.modelB) =>
               /\ RatingOf(eloScores, loc.modelA) - loc.ratingA
                      = Gain(loc.scoreA, loc.expectedA)
               /\ RatingOf(eloScores, loc.modelB) - loc.ratingB
                      = -Gain(loc.scoreA, loc.expectedA)

C10_Witness ==
    /\ pc = "returned"
    /\ Len(processed) >= 2
    /\ loc.modelA # loc.modelB
    /\ loc.ratingA # loc.ratingB
    /\ loc.scoreA = One
    /\ loc.expectedA > Half
    /\ RatingOf(eloScores, loc.modelA) + RatingOf(eloScores, loc.modelB)
           = 2 * ELO_DEFAULT_RATING

====
